---- MODULE Spec2Model ----
(***************************************************************************)
(* A model of the two command-line utilities of the repository:            *)
(*   scripts/audio_processor.py  (extract audio, transcribe, clean up)     *)
(*   scripts/tiktok_search.py    (hashtag tier, trending tier fallback)    *)
(* Every external collaborator (ffmpeg, yt-dlp, the speech-to-text API,    *)
(* the TikTok client library, the file system) is a nondeterministic       *)
(* choice over the outcomes the code distinguishes.                        *)
(*                                                                         *)
(* Python values are tagged records (PyNone, PyNum, PyStr); text is a      *)
(* sequence of one-character strings, a URL is a sequence of its segments. *)
(* Money is kept in micro-dollars so that the cost arithmetic is exact.    *)
(***************************************************************************)
EXTENDS Integers, Sequences, FiniteSets, TLC

VARIABLES
    \* ---- audio_processor.py
    ppc,                  \* position in main()/process_video()
    entry,                \* "cli" (main) or "api" (process_video called directly)
    argv,                 \* sys.argv of audio_processor.py
    video_url,            \* argument of process_video
    cleanup,              \* argument of process_video
    audio_path,           \* local of process_video (PyNone or PyStr(path))
    files,                \* paths that exist on the local file system
    created,              \* history: temporary files made during this run
    file_size,            \* size in bytes of the extracted audio file
    exc,                  \* the exception in flight (PyNone when there is none)
    transcription_result, \* local of process_video
    result,               \* value returned by process_video
    apiCalls,             \* history: calls of audio.transcriptions.create
    fetchFailed,          \* history: extract_audio_from_video raised
    transcribeCalls,      \* history: calls of transcribe_audio
    transcribeFailed,     \* history: the transcription step failed
    unlinkFailed,         \* history: os.unlink raised in the finally block
    stdout,               \* what main() printed
    exitCode,             \* process exit status (-1 while running)
    \* ---- tiktok_search.py
    spc,                  \* position in main()/search_tiktok_videos()
    sentry,               \* "cli" (main) or "api" (awaited directly)
    sargv,                \* sys.argv of tiktok_search.py
    query,                \* argument of search_tiktok_videos
    hashtag_query,        \* local of search_tiktok_videos (line 50)
    max_results,          \* argument of search_tiktok_videos
    videos,               \* local list of search_tiktok_videos
    video_count,          \* local counter of search_tiktok_videos
    hN,                   \* history: items the hashtag feed delivered
    tN,                   \* history: items the trending feed delivered
    tK,                   \* history: delivered trending items that match
    mapFaults,            \* history: items whose mapping raised
    hashtagAttempted,     \* history: the hashtag tier was entered
    hashtagRaised,        \* history: the handler of line 87 was entered
    trendingRequested,    \* history: api.trending.videos was requested
    sevent,               \* history: what the last step did
    sresult,              \* value returned by search_tiktok_videos
    sstdout,              \* what main() printed
    sexitCode             \* process exit status (-1 while running)

pvars == <<ppc, entry, argv, video_url, cleanup, audio_path, files, created,
           file_size, exc, transcription_result, result, apiCalls, fetchFailed,
           transcribeCalls, transcribeFailed, unlinkFailed, stdout, exitCode>>

svars == <<spc, sentry, sargv, query, hashtag_query, max_results, videos,
           video_count, hN, tN, tK, mapFaults, hashtagAttempted, hashtagRaised, trendingRequested,
           sevent, sresult, sstdout, sexitCode>>

vars == <<pvars, svars>>

----------------------------------------------------------------------------
(* Python values *)

PyNone == [t |-> "None"]

PyNum(n) == [t |-> "num", n |-> n]

PyStr(s) == [t |-> "str", s |-> s]

\* bool(v) of Python for the values used here
Truthy(v) ==
    CASE v.t = "None" -> FALSE
      [] v.t = "num"  -> v.n # 0
      [] v.t = "str"  -> v.s # ""

----------------------------------------------------------------------------
(* Program constants *)

\* 25 * 1024 * 1024 bytes
WhisperLimit == 26214400

\* $0.006 per minute, in micro-dollars
RateMicro == 6000

SecondsPerMinute == 60

----------------------------------------------------------------------------
(* Inputs *)

Urls ==
    { <<"https://", "www.", "youtube.com/", "watch?v=", "abc123">>,
      <<"https://", "youtu.be/", "abc123">>,
      <<"youtube.com/", "embed/", "abc123">>,
      <<"https://", "youtube.com/", "channel/", "abc123">>,
      <<"https://", "example.com/", "v/", "clip.mp4">>,
      <<"/data/", "clip.mp4">> }

AudioArgvs ==
    { <<"audio_processor.py">> }
    \cup { <<"audio_processor.py", u>> : u \in Urls }

Sizes == { 0, WhisperLimit - 1, WhisperLimit, WhisperLimit + 1, 2 * WhisperLimit }

\* what the service may report as duration: absent, seconds, or not a number
Durations == { PyNone, PyNum(0), PyNum(120), PyNum(600), PyStr("n/a") }

TempPath == "tmp1.mp3"

----------------------------------------------------------------------------
(* audio_processor.py *)

\* re.search of
\*   (https?://)?(www\.)?(youtube\.com/(watch\?v=|embed/|v/)|youtu\.be/):
\* both prefixes are optional and the search is unanchored
is_youtube_url(url) ==
    \E i \in 1..Len(url) :
        \/ url[i] = "youtu.be/"
        \/ /\ url[i] = "youtube.com/"
           /\ i < Len(url)
           /\ url[i + 1] \in {"watch?v=", "embed/", "v/"}

\* the tools extract_audio_from_video can fail with, by strategy
ExtractFailures(url) ==
    IF is_youtube_url(url)
    THEN { "YouTube download failed" }
    ELSE { "FFmpeg failed", "Audio extraction timeout" }

FailureResult(prefix, detail) ==
    [success |-> FALSE, transcript |-> "", language |-> "en",
     message |-> <<prefix, detail>>]

\* mutant: the limit itself is refused
SizeCheckTooLarge_inclusive(size) == size >= WhisperLimit

\* line 142
SizeCheckTooLarge(size) == size > WhisperLimit

\* duration / 60 * 0.006, in micro-dollars
EstimatedCost(duration) == (duration * RateMicro) \div SecondsPerMinute

PInit ==
    /\ ppc = "start"
    /\ entry = "none"
    /\ argv = <<>>
    /\ video_url = <<>>
    /\ cleanup = TRUE
    /\ audio_path = PyNone
    /\ files = {}
    /\ created = {}
    /\ file_size = 0
    /\ exc = PyNone
    /\ transcription_result = PyNone
    /\ result = PyNone
    /\ apiCalls = 0
    /\ fetchFailed = FALSE
    /\ transcribeCalls = 0
    /\ transcribeFailed = FALSE
    /\ unlinkFailed = FALSE
    /\ stdout = <<>>
    /\ exitCode = -1

\* main(), lines 229-233: usage error or take the argument
MainAudio ==
    /\ UNCHANGED svars
    /\ ppc = "start"
    /\ \E a \in AudioArgvs :
        /\ argv' = a
        /\ entry' = "cli"
        /\ IF Len(a) < 2
           THEN /\ stdout' = <<"usage">>
                /\ exitCode' = 1
                /\ ppc' = "exited"
                /\ UNCHANGED video_url
           ELSE /\ video_url' = a[2]
                /\ ppc' = "construct"
                /\ UNCHANGED <<stdout, exitCode>>
    /\ UNCHANGED <<cleanup, audio_path, files, created, file_size, exc,
                   transcription_result, result, apiCalls, fetchFailed,
                   transcribeCalls, transcribeFailed, unlinkFailed>>

\* main(), line 234: AudioProcessor() builds the OpenAI client from the
\* environment outside any try block; the client constructor may raise
ConstructProcessor ==
    /\ UNCHANGED svars
    /\ ppc = "construct"
    /\ \E outcome \in {"ok", "raise"} :
        IF outcome = "ok"
        THEN /\ ppc' = "extract"
             /\ UNCHANGED <<exc, exitCode>>
        ELSE /\ exc' = PyStr("OpenAIError")
             /\ exitCode' = 1
             /\ ppc' = "crashed"
    /\ UNCHANGED <<entry, argv, video_url, cleanup, audio_path, files, created,
                   file_size, transcription_result, result, apiCalls,
                   fetchFailed, transcribeCalls, transcribeFailed,
                   unlinkFailed, stdout>>

\* process_video called by a program that imports the module
CallProcessVideo ==
    /\ UNCHANGED svars
    /\ ppc = "start"
    /\ entry' = "api"
    /\ \E u \in Urls, c \in BOOLEAN :
        /\ video_url' = u
        /\ cleanup' = c
    /\ ppc' = "extract"
    /\ UNCHANGED <<argv, audio_path, files, created, file_size, exc,
                   transcription_result, result, apiCalls, fetchFailed,
                   transcribeCalls, transcribeFailed, unlinkFailed, stdout,
                   exitCode>>

\* extract_audio_from_video / download_youtube_audio return the path:
\* the temporary file was created and the tool wrote the audio into it
ExtractAudioOk ==
    /\ UNCHANGED svars
    /\ ppc = "extract"
    /\ \E size \in Sizes : file_size' = size
    /\ files' = files \cup {TempPath}
    /\ created' = created \cup {TempPath}
    /\ audio_path' = PyStr(TempPath)
    /\ ppc' = "transcribe"
    /\ UNCHANGED <<entry, argv, video_url, cleanup, exc, transcription_result,
                   result, apiCalls, fetchFailed, transcribeCalls,
                   transcribeFailed, unlinkFailed, stdout, exitCode>>

\* mutant: the failure is logged and None is returned instead of raising
ExtractAudioFail_swallow ==
    /\ ppc = "extract"
    /\ fetchFailed' = TRUE
    /\ audio_path' = PyNone
    /\ ppc' = "transcribe"
    /\ UNCHANGED <<entry, argv, video_url, cleanup, files, created, file_size,
                   exc, transcription_result, result, apiCalls, transcribeCalls,
                   transcribeFailed, unlinkFailed, stdout, exitCode>>
    /\ UNCHANGED svars

\* extract_audio_from_video raises: either NamedTemporaryFile failed (no
\* file), or the file was created (delete=False) and the tool then failed;
\* the assignment audio_path = ... of process_video never happens
ExtractAudioFail ==
    /\ UNCHANGED svars
    /\ ppc = "extract"
    /\ \E tempMade \in BOOLEAN :
        IF tempMade
        THEN /\ files' = files \cup {TempPath}
             /\ created' = created \cup {TempPath}
             /\ \E e \in ExtractFailures(video_url) : exc' = PyStr(e)
        ELSE /\ exc' = PyStr("OSError")
             /\ UNCHANGED <<files, created>>
    /\ fetchFailed' = TRUE
    /\ ppc' = "except"
    /\ UNCHANGED <<entry, argv, video_url, cleanup, audio_path, file_size,
                   transcription_result, result, apiCalls, transcribeCalls,
                   transcribeFailed, unlinkFailed, stdout, exitCode>>

\* transcribe_audio, lines 137-179
TranscribeAudio ==
    /\ UNCHANGED svars
    /\ ppc = "transcribe"
    /\ transcribeCalls' = transcribeCalls + 1
    /\ \/ \* os.path.getsize raises (no such file, not a path)
          /\ audio_path = PyNone \/ TempPath \notin files
          /\ transcription_result' =
                 FailureResult("Oshibka transkripcii", "getsize failed")
          /\ transcribeFailed' = TRUE
          /\ UNCHANGED apiCalls
       \/ \* the size check short-circuits
          /\ audio_path # PyNone /\ TempPath \in files
          /\ SizeCheckTooLarge(file_size)
          /\ transcription_result' =
                 FailureResult("Fajl slishkom bolshoj", "max 25MB")
          /\ transcribeFailed' = TRUE
          /\ UNCHANGED apiCalls
       \/ \* the service is called
          /\ audio_path # PyNone /\ TempPath \in files
          /\ ~SizeCheckTooLarge(file_size)
          /\ apiCalls' = apiCalls + 1
          /\ \/ \E text \in {"", "hello"}, d \in Durations :
                  /\ transcription_result' =
                         [success |-> TRUE, transcript |-> text,
                          language |-> "en", duration |-> d,
                          message |-> <<"Transkripciya vypolnena", "en">>]
                  /\ UNCHANGED transcribeFailed
             \/ /\ transcription_result' =
                       FailureResult("Oshibka transkripcii", "APIError")
                /\ transcribeFailed' = TRUE
    /\ ppc' = "cost"
    /\ UNCHANGED <<entry, argv, video_url, cleanup, audio_path, files, created,
                   file_size, exc, result, fetchFailed, unlinkFailed, stdout,
                   exitCode>>

\* transcription_result.get("duration")
GetDuration(r) == IF "duration" \in DOMAIN r THEN r.duration ELSE PyNone

HasDuration(r) == Truthy(GetDuration(r))

\* process_video, lines 202-208
CostEstimate ==
    /\ UNCHANGED svars
    /\ ppc = "cost"
    /\ IF HasDuration(transcription_result)
       THEN IF GetDuration(transcription_result).t = "num"
            THEN /\ result' =
                       [success |-> transcription_result.success,
                        transcript |-> transcription_result.transcript,
                        language |-> transcription_result.language,
                        duration |-> transcription_result.duration,
                        message |-> transcription_result.message,
                        estimated_cost |->
                            EstimatedCost(transcription_result.duration.n)]
                 /\ ppc' = "finally"
                 /\ UNCHANGED exc
            ELSE \* str / int raises TypeError inside the try block
                 /\ exc' = PyStr("TypeError")
                 /\ ppc' = "except"
                 /\ UNCHANGED result
       ELSE /\ result' = transcription_result
            /\ ppc' = "finally"
            /\ UNCHANGED exc
    /\ UNCHANGED <<entry, argv, video_url, cleanup, audio_path, files, created,
                   file_size, transcription_result, apiCalls, fetchFailed,
                   transcribeCalls, transcribeFailed, unlinkFailed, stdout,
                   exitCode>>

\* process_video, lines 210-217
ProcessVideoExcept ==
    /\ UNCHANGED svars
    /\ ppc = "except"
    /\ result' = FailureResult("Oshibka obrabotki video", exc.s)
    /\ exc' = PyNone
    /\ ppc' = "finally"
    /\ UNCHANGED <<entry, argv, video_url, cleanup, audio_path, files, created,
                   file_size, transcription_result, apiCalls, fetchFailed,
                   transcribeCalls, transcribeFailed, unlinkFailed, stdout,
                   exitCode>>

\* the guard of the finally block, line 220
ShouldUnlink == cleanup /\ audio_path # PyNone /\ audio_path.s \in files

\* process_video, lines 218-225, then the return
ProcessVideoFinally ==
    /\ UNCHANGED svars
    /\ ppc = "finally"
    /\ IF ShouldUnlink
       THEN \/ /\ files' = files \ {audio_path.s}
               /\ UNCHANGED unlinkFailed
            \/ /\ unlinkFailed' = TRUE
               /\ UNCHANGED files
       ELSE UNCHANGED <<files, unlinkFailed>>
    /\ ppc' = "returned"
    /\ UNCHANGED <<entry, argv, video_url, cleanup, audio_path, created,
                   file_size, exc, transcription_result, result, apiCalls,
                   fetchFailed, transcribeCalls, transcribeFailed, stdout,
                   exitCode>>

\* main(), line 236
PrintResult ==
    /\ UNCHANGED svars
    /\ ppc = "returned"
    /\ entry = "cli"
    /\ stdout' = <<"json", result>>
    /\ exitCode' = 0
    /\ ppc' = "exited"
    /\ UNCHANGED <<entry, argv, video_url, cleanup, audio_path, files, created,
                   file_size, exc, transcription_result, result, apiCalls,
                   fetchFailed, transcribeCalls, transcribeFailed,
                   unlinkFailed>>

PNext ==
    \/ MainAudio
    \/ ConstructProcessor
    \/ CallProcessVideo
    \/ ExtractAudioOk
    \/ ExtractAudioFail
    \/ TranscribeAudio
    \/ CostEstimate
    \/ ProcessVideoExcept
    \/ ProcessVideoFinally
    \/ PrintResult


----------------------------------------------------------------------------
(* Text: sequences of one-character strings *)

Min(a, b) == IF a < b THEN a ELSE b

\* str.lower() on the alphabet of the inputs
LowerChar(c) ==
    CASE c = "A" -> "a"
      [] c = "B" -> "b"
      [] c = "X" -> "x"
      [] OTHER   -> c

Lower(s) == [i \in 1..Len(s) |-> LowerChar(s[i])]

\* s.replace(" ", "")
RECURSIVE RemoveSpaces(_)
RemoveSpaces(s) ==
    IF s = <<>> THEN <<>>
    ELSE IF Head(s) = " " THEN RemoveSpaces(Tail(s))
    ELSE <<Head(s)>> \o RemoveSpaces(Tail(s))

\* str.split(): the maximal runs of non-whitespace characters, in order
RECURSIVE SplitFrom(_, _)
SplitFrom(s, cur) ==
    IF s = <<>> THEN (IF cur = <<>> THEN <<>> ELSE <<cur>>)
    ELSE IF Head(s) = " "
         THEN (IF cur = <<>> THEN <<>> ELSE <<cur>>) \o SplitFrom(Tail(s), <<>>)
         ELSE SplitFrom(Tail(s), Append(cur, Head(s)))

Split(s) == SplitFrom(s, <<>>)

\* the Python operator  sub in s  on strings
Contains(s, sub) ==
    \E i \in 0..(Len(s) - Len(sub)) :
        \A j \in 1..Len(sub) : s[i + j] = sub[j]

\* any(keyword.lower() in desc for keyword in query.split()), desc lowered
KeywordMatch(q, description) ==
    LET toks == Split(q)
    IN \E k \in 1..Len(toks) : Contains(Lower(description), Lower(toks[k]))

\* int(s) of Python: surrounding whitespace is stripped, an optional sign,
\* then one or more decimal digits
Digits == {"0", "1", "2", "3", "4", "5", "6", "7", "8", "9"}

DigitVal(c) ==
    CASE c = "0" -> 0 [] c = "1" -> 1 [] c = "2" -> 2 [] c = "3" -> 3
      [] c = "4" -> 4 [] c = "5" -> 5 [] c = "6" -> 6 [] c = "7" -> 7
      [] c = "8" -> 8 [] c = "9" -> 9

RECURSIVE Strip(_)
Strip(s) ==
    IF s # <<>> /\ Head(s) = " " THEN Strip(Tail(s))
    ELSE IF s # <<>> /\ s[Len(s)] = " " THEN Strip(SubSeq(s, 1, Len(s) - 1))
    ELSE s

Unsigned(s) ==
    IF s # <<>> /\ Head(s) \in {"-", "+"} THEN Tail(s) ELSE s

IsIntLiteral(s) ==
    LET u == Unsigned(Strip(s))
    IN u # <<>> /\ \A i \in 1..Len(u) : u[i] \in Digits

RECURSIVE DigitsValue(_, _)
DigitsValue(u, acc) ==
    IF u = <<>> THEN acc ELSE DigitsValue(Tail(u), 10 * acc + DigitVal(Head(u)))

IntOf(s) ==
    LET t == Strip(s)
        v == DigitsValue(Unsigned(t), 0)
    IN IF Head(t) = "-" THEN 0 - v ELSE v

\* str(n) for 0 <= n <= 9
StrOf(n) == <<CHOOSE c \in Digits : DigitVal(c) = n>>

----------------------------------------------------------------------------
(* Bounds and inputs of the search *)

\* largest max_results tried
MaxResults == 2

\* most items one remote feed delivers
MaxFeed == 3

\* max_results=5 when the argument is absent
DefaultMaxResults == 5

Queries == { <<>>, <<"A">>, <<"a", " ", "b">> }

\* descriptions of hashtag feed items (an empty one gets the default title)
HashtagDescs == { <<>>, <<"x", "A">> }

\* descriptions of trending feed items
TrendingDescs == { <<"x">>, <<"x", "a">>, <<"B">> }

MaxResultsArgs ==
    { StrOf(n) : n \in 0..MaxResults }
    \cup { <<"-", "1">>, <<" ", "1">>, <<"a", "b">>, <<>> }

SearchArgvs ==
    { <<"tiktok_search.py">> }
    \cup { <<"tiktok_search.py", q>> : q \in Queries }
    \cup { <<"tiktok_search.py", q, n>> : q \in Queries, n \in MaxResultsArgs }

\* what can go wrong while one feed item is mapped into a record:
\* nothing, the item's dictionary or author (as_dict, author.username),
\* or the item's id attribute (video.id)
HashtagFaults == { "none", "dict", "id" }

TrendingFaults == { "none", "dict" }

----------------------------------------------------------------------------
(* tiktok_search.py *)

SInit ==
    /\ spc = "start"
    /\ sentry = "none"
    /\ sargv = <<>>
    /\ query = <<>>
    /\ hashtag_query = <<>>
    /\ max_results = 0
    /\ videos = <<>>
    /\ video_count = 0
    /\ hN = 0
    /\ tN = 0
    /\ tK = 0
    /\ mapFaults = 0
    /\ hashtagAttempted = FALSE
    /\ hashtagRaised = FALSE
    /\ trendingRequested = FALSE
    /\ sevent = "none"
    /\ sresult = PyNone
    /\ sstdout = <<>>
    /\ sexitCode = -1

\* lines 63-78 and 104-119; tier is history, not a field of the record
VideoData(tier, id, description, defaultTitle) ==
    [video_id |-> id, platform |-> "tiktok",
     title |-> IF description # <<>> THEN description ELSE defaultTitle,
     description |-> description, tier |-> tier]

\* mutant: the empty case reports success
SearchResult_alwaysSuccess(vs, q) ==
    [success |-> TRUE, videos |-> vs, total_found |-> Len(vs),
     message |-> <<"Najdeno", Len(vs), q>>]

\* lines 132-147
SearchResult(vs, q) ==
    IF vs # <<>>
    THEN [success |-> TRUE, videos |-> vs, total_found |-> Len(vs),
          message |-> <<"Najdeno", Len(vs), q>>]
    ELSE [success |-> FALSE, videos |-> <<>>, total_found |-> 0,
          message |-> <<"ne najdeny", q>>]

\* lines 149-156
SearchErrorResult(e) ==
    [success |-> FALSE, videos |-> <<>>, total_found |-> 0,
     message |-> <<"Oshibka poiska TikTok", e>>]

\* main(), lines 160-167
MainSearch ==
    /\ spc = "start"
    /\ \E a \in SearchArgvs :
        /\ sargv' = a
        /\ sentry' = "cli"
        /\ IF Len(a) < 2
           THEN /\ sstdout' = <<"usage">>
                /\ sexitCode' = 1
                /\ spc' = "exited"
                /\ sevent' = "usage"
                /\ UNCHANGED <<query, max_results>>
           ELSE IF Len(a) > 2 /\ ~IsIntLiteral(a[3])
           THEN \* int(sys.argv[2]) raises ValueError outside any try block
                /\ sexitCode' = 1
                /\ spc' = "crashed"
                /\ sevent' = "ValueError"
                /\ UNCHANGED <<sstdout, query, max_results>>
           ELSE /\ query' = a[2]
                /\ max_results' =
                       IF Len(a) > 2 THEN IntOf(a[3]) ELSE DefaultMaxResults
                /\ spc' = "setup"
                /\ sevent' = "main"
                /\ UNCHANGED <<sstdout, sexitCode>>
    /\ UNCHANGED <<hashtag_query, videos, video_count, hN, tN, tK, mapFaults,
                   hashtagAttempted, hashtagRaised, trendingRequested, sresult>>
    /\ UNCHANGED pvars

\* search_tiktok_videos awaited by a program that imports the module
CallSearch ==
    /\ spc = "start"
    /\ sentry' = "api"
    /\ \E q \in Queries, m \in 0..MaxResults :
        /\ query' = q
        /\ max_results' = m
    /\ spc' = "setup"
    /\ sevent' = "call"
    /\ UNCHANGED <<sargv, hashtag_query, videos, video_count, hN, tN, tK,
                   mapFaults, hashtagAttempted, hashtagRaised, trendingRequested, sresult,
                   sstdout, sexitCode>>
    /\ UNCHANGED pvars

\* lines 30-46: TikTokApi().__aenter__ and, with ms_token set in the
\* environment, create_sessions; either may raise, which the handler of
\* line 149 turns into a result; without a token only a warning is logged
SessionSetup ==
    /\ spc = "setup"
    /\ \E ms_token \in BOOLEAN,
          outcome \in {"ok", "aenter_raise", "sessions_raise"} :
        /\ (outcome = "sessions_raise") => ms_token
        /\ IF outcome = "ok"
           THEN /\ videos' = <<>>
                /\ spc' = "lookup"
                /\ sevent' = "session"
                /\ UNCHANGED sresult
           ELSE /\ sresult' = SearchErrorResult(outcome)
                /\ spc' = "returned"
                /\ sevent' = "session_error"
                /\ UNCHANGED videos
    /\ UNCHANGED <<sentry, sargv, query, hashtag_query, max_results,
                   video_count, hN, tN, tK, mapFaults, hashtagAttempted,
                   hashtagRaised, trendingRequested, sstdout, sexitCode>>
    /\ UNCHANGED pvars

\* lines 48-54: the hashtag tier is entered; api.hashtag(...) may raise
HashtagLookup ==
    /\ spc = "lookup"
    /\ hashtagAttempted' = TRUE
    /\ hashtag_query' = Lower(RemoveSpaces(query))
    /\ \E outcome \in {"ok", "raise"} :
        IF outcome = "ok"
        THEN /\ video_count' = 0
             /\ spc' = "hashtag"
             /\ sevent' = "h_lookup"
             /\ UNCHANGED hashtagRaised
        ELSE /\ hashtagRaised' = TRUE
             /\ spc' = "fallback"
             /\ sevent' = "h_lookup_error"
             /\ UNCHANGED video_count
    /\ UNCHANGED <<sentry, sargv, query, max_results, videos, hN, tN, tK,
                   mapFaults, trendingRequested, sresult, sstdout, sexitCode>>
    /\ UNCHANGED pvars

\* mutant: an empty hashtag tier falls back to the trending tier
HashtagFeedEnd_fallbackWhenEmpty ==
    /\ spc = "hashtag"
    /\ spc' = IF videos = <<>> THEN "fallback" ELSE "exit"
    /\ sevent' = "h_end"
    /\ UNCHANGED <<sentry, sargv, query, hashtag_query, max_results, videos, video_count, hN,
                   tN, tK, mapFaults, hashtagAttempted, hashtagRaised,
                   trendingRequested, sresult, sstdout, sexitCode>>
    /\ UNCHANGED pvars

\* line 55: the hashtag feed is exhausted, the loop ends normally
HashtagFeedEnd ==
    /\ spc = "hashtag"
    /\ spc' = "exit"
    /\ sevent' = "h_end"
    /\ UNCHANGED <<sentry, sargv, query, hashtag_query, max_results, videos, video_count, hN,
                   tN, tK, mapFaults, hashtagAttempted, hashtagRaised,
                   trendingRequested, sresult, sstdout, sexitCode>>
    /\ UNCHANGED pvars

\* line 55: fetching the next item of the hashtag feed raises
HashtagFeedRaise ==
    /\ spc = "hashtag"
    /\ hashtagRaised' = TRUE
    /\ spc' = "fallback"
    /\ sevent' = "h_feed_error"
    /\ UNCHANGED <<sentry, sargv, query, hashtag_query, max_results, videos, video_count, hN,
                   tN, tK, mapFaults, hashtagAttempted, trendingRequested,
                   sresult, sstdout, sexitCode>>
    /\ UNCHANGED pvars

\* lines 55-85: one pass of the hashtag loop over a delivered item
HashtagItem ==
    /\ spc = "hashtag"
    /\ hN < MaxFeed
    /\ hN' = hN + 1
    /\ \E description \in HashtagDescs, fault \in HashtagFaults :
        IF video_count >= max_results
        THEN \* break
             /\ spc' = "exit"
             /\ sevent' = "h_break"
             /\ UNCHANGED <<videos, video_count, mapFaults, hashtagRaised>>
        ELSE IF fault = "none"
        THEN /\ videos' = Append(videos,
                    VideoData("hashtag", hN + 1, description,
                              <<"TikTok video about ">> \o query))
             /\ video_count' = video_count + 1
             /\ sevent' = "h_item"
             /\ UNCHANGED <<spc, mapFaults, hashtagRaised>>
        ELSE IF fault = "dict"
        THEN \* line 83-85: logged, continue
             /\ mapFaults' = mapFaults + 1
             /\ sevent' = "h_map_fault"
             /\ UNCHANGED <<spc, videos, video_count, hashtagRaised>>
        ELSE \* video.id raised at line 64; the handler's message (line 84)
             \* reads video.id again, and that exception leaves the loop
             /\ mapFaults' = mapFaults + 1
             /\ hashtagRaised' = TRUE
             /\ spc' = "fallback"
             /\ sevent' = "h_map_fault"
             /\ UNCHANGED <<videos, video_count>>
    /\ UNCHANGED <<sentry, sargv, query, hashtag_query, max_results, tN, tK, hashtagAttempted,
                   trendingRequested, sresult, sstdout, sexitCode>>
    /\ UNCHANGED pvars

\* lines 87-94: the handler of the hashtag tier requests the trending feed
TrendingRequest ==
    /\ spc = "fallback"
    /\ video_count' = 0
    /\ trendingRequested' = TRUE
    /\ spc' = "trending"
    /\ sevent' = "t_request"
    /\ UNCHANGED <<sentry, sargv, query, hashtag_query, max_results, videos, hN, tN, tK,
                   mapFaults, hashtagAttempted, hashtagRaised, sresult, sstdout,
                   sexitCode>>
    /\ UNCHANGED pvars

\* line 94: the trending feed is exhausted
TrendingFeedEnd ==
    /\ spc = "trending"
    /\ spc' = "exit"
    /\ sevent' = "t_end"
    /\ UNCHANGED <<sentry, sargv, query, hashtag_query, max_results, videos, video_count, hN,
                   tN, tK, mapFaults, hashtagAttempted, hashtagRaised,
                   trendingRequested, sresult, sstdout, sexitCode>>
    /\ UNCHANGED pvars

\* lines 94, 129-130: fetching the next trending item raises; logged
TrendingFeedRaise ==
    /\ spc = "trending"
    /\ spc' = "exit"
    /\ sevent' = "t_feed_error"
    /\ UNCHANGED <<sentry, sargv, query, hashtag_query, max_results, videos, video_count, hN,
                   tN, tK, mapFaults, hashtagAttempted, hashtagRaised,
                   trendingRequested, sresult, sstdout, sexitCode>>
    /\ UNCHANGED pvars

\* lines 94-127: one pass of the trending loop over a delivered item
TrendingItem ==
    /\ spc = "trending"
    /\ tN < MaxFeed
    /\ tN' = tN + 1
    /\ \E description \in TrendingDescs, fault \in TrendingFaults :
        /\ tK' = IF KeywordMatch(query, description) THEN tK + 1 ELSE tK
        /\ IF video_count >= max_results
           THEN \* break
                /\ spc' = "exit"
                /\ sevent' = "t_break"
                /\ UNCHANGED <<videos, video_count, mapFaults>>
           ELSE IF fault # "none"
           THEN \* lines 123-125: logged, continue (line 127 is skipped)
                /\ mapFaults' = mapFaults + 1
                /\ sevent' = "t_map_fault"
                /\ UNCHANGED <<spc, videos, video_count>>
           ELSE /\ videos' =
                       IF KeywordMatch(query, description)
                       THEN Append(videos,
                                VideoData("trending", tN + 1, description,
                                          <<"Trending TikTok video">>))
                       ELSE videos
                /\ video_count' = video_count + 1
                /\ sevent' = "t_item"
                /\ UNCHANGED <<spc, mapFaults>>
    /\ UNCHANGED <<sentry, sargv, query, hashtag_query, max_results, hN, hashtagAttempted,
                   hashtagRaised, trendingRequested, sresult, sstdout,
                   sexitCode>>
    /\ UNCHANGED pvars

\* lines 37, 132-156: the client's __aexit__, then the result is built;
\* an exception of __aexit__ reaches the handler of line 149
ReturnResult ==
    /\ spc = "exit"
    /\ \E outcome \in {"ok", "raise"} :
        sresult' = IF outcome = "ok"
                   THEN SearchResult(videos, query)
                   ELSE SearchErrorResult("aexit")
    /\ spc' = "returned"
    /\ sevent' = "return"
    /\ UNCHANGED <<sentry, sargv, query, hashtag_query, max_results, videos, video_count, hN,
                   tN, tK, mapFaults, hashtagAttempted, hashtagRaised,
                   trendingRequested, sstdout, sexitCode>>
    /\ UNCHANGED pvars

\* main(), line 170
PrintSearchResult ==
    /\ spc = "returned"
    /\ sentry = "cli"
    /\ sstdout' = <<"json", sresult>>
    /\ sexitCode' = 0
    /\ spc' = "exited"
    /\ sevent' = "print"
    /\ UNCHANGED <<sentry, sargv, query, hashtag_query, max_results, videos, video_count, hN,
                   tN, tK, mapFaults, hashtagAttempted, hashtagRaised,
                   trendingRequested, sresult>>
    /\ UNCHANGED pvars

SNext ==
    \/ MainSearch
    \/ CallSearch
    \/ SessionSetup
    \/ HashtagLookup
    \/ HashtagFeedEnd
    \/ HashtagFeedRaise
    \/ HashtagItem
    \/ TrendingRequest
    \/ TrendingFeedEnd
    \/ TrendingFeedRaise
    \/ TrendingItem
    \/ ReturnResult
    \/ PrintSearchResult

----------------------------------------------------------------------------
(* Specifications *)

Init == PInit /\ SInit

\* one run of audio_processor.py
SpecPipeline == Init /\ [][PNext]_vars

\* one run of tiktok_search.py
SpecSearch == Init /\ [][SNext]_vars

----------------------------------------------------------------------------
(* Properties of audio_processor.py, checked under SpecPipeline *)

ProcessVideoReturned == result # PyNone /\ ppc \in {"returned", "exited"}

\* C1: when process_video has returned with cleanup=true and os.unlink did
\* not fail, no temporary audio file created during the run is left on disk.
C1_CleanupOnEveryExit ==
    (ProcessVideoReturned /\ cleanup /\ ~unlinkFailed) => (created \cap files = {})

\* C3: after transcribe_audio, an asset larger than 25*1024*1024 bytes has a
\* result with success=false, empty transcript, language "en", and the
\* service was never called; an asset of at most that size was sent once.
C3_SizeLimit ==
    (ppc = "cost" /\ audio_path # PyNone) =>
        /\ (file_size > 25 * 1024 * 1024) =>
              /\ transcription_result.success = FALSE
              /\ transcription_result.transcript = ""
              /\ transcription_result.language = "en"
              /\ apiCalls = 0
        /\ (file_size <= 25 * 1024 * 1024) => apiCalls = 1

C3_Witness ==
    /\ ppc = "cost"
    /\ file_size = 25 * 1024 * 1024 + 1
    /\ transcription_result.success = FALSE
    /\ apiCalls = 0

\* C4: process_video returns with no exception in flight; when the fetch or
\* the transcription step failed the result has success=false, an empty
\* transcript and a message; after a failed fetch transcribe_audio and the
\* service are never called.
C4_NoEscape ==
    /\ (ppc = "returned") => (exc = PyNone /\ result # PyNone)
    /\ (ppc = "crashed") => (~fetchFailed /\ transcribeCalls = 0)
    /\ (ppc = "returned" /\ (fetchFailed \/ transcribeFailed)) =>
          /\ result.success = FALSE
          /\ result.transcript = ""
          /\ "message" \in DOMAIN result
    /\ fetchFailed => (transcribeCalls = 0 /\ apiCalls = 0)

C4_Witness ==
    /\ ppc = "returned"
    /\ fetchFailed
    /\ result.success = FALSE
    /\ transcribeCalls = 0

\* C8: the returned result carries estimated_cost = d/60*0.006 (here d*100
\* micro-dollars) for every numeric duration d of the transcription result,
\* 0 included, and no estimated_cost when there is no duration.
C8_EstimatedCost ==
    (ppc = "returned" /\ transcription_result # PyNone /\ ~fetchFailed) =>
        LET d == GetDuration(transcription_result)
        IN /\ (d.t = "num") =>
                 /\ "estimated_cost" \in DOMAIN result
                 /\ result.estimated_cost = d.n * 100
           /\ (d.t = "None") => "estimated_cost" \notin DOMAIN result

----------------------------------------------------------------------------
(* Properties of tiktok_search.py, checked under SpecSearch *)

SearchReturned == sresult # PyNone

\* C2: for max_results >= 0 the returned videos list holds at most
\* max_results records, whatever the feeds do.
C2_AtMostMaxResults ==
    (SearchReturned /\ max_results >= 0) => Len(sresult.videos) <= max_results

\* C5: the search never raises; success is true exactly when videos is
\* non-empty, total_found is the number of videos, there is a message; and
\* when nothing was collected (session setup failed, or both tiers were
\* empty or raised) the result is success=false, videos=[], total_found=0.
C5_ResultShape ==
    /\ (spc = "crashed") => (sevent = "ValueError" /\ ~hashtagAttempted)
    /\ SearchReturned =>
          /\ sresult.success = (sresult.videos # <<>>)
          /\ sresult.total_found = Len(sresult.videos)
          /\ "message" \in DOMAIN sresult
          /\ (videos = <<>>) =>
                /\ sresult.success = FALSE
                /\ sresult.videos = <<>>
                /\ sresult.total_found = 0

C5_Witness ==
    /\ SearchReturned
    /\ hashtagRaised
    /\ trendingRequested
    /\ tN > 0
    /\ videos = <<>>
    /\ sresult.success = FALSE

\* C6: when the hashtag call raised before delivering anything and the
\* trending feed delivered tN items of which tK match the query, the loop
\* leaves exactly min(tK, max_results) records, all from the trending tier.
C6_TrendingMinKMax ==
    (spc = "exit" /\ hashtagRaised /\ hN = 0 /\ mapFaults = 0
        /\ max_results >= 0) =>
        /\ Len(videos) = Min(tK, max_results)
        /\ \A i \in 1..Len(videos) : videos[i].tier = "trending"

\* C7: the process exits with a non-zero status only when the required
\* argument is missing; every other invocation ends with a JSON document
\* printed and no exception crossing main().
C7_NonZeroExitOnlyOnUsage ==
    /\ (sexitCode \notin {-1, 0}) => Len(sargv) < 2
    /\ (spc \in {"exited", "crashed"} /\ Len(sargv) >= 2) =>
          /\ spc = "exited"
          /\ sstdout[1] = "json"
          /\ "success" \in DOMAIN sstdout[2]

\* C9: the trending feed is requested only after the hashtag tier was
\* attempted and raised, it is requested whenever that happened, and a
\* hashtag tier that completes without error never leads to it.
C9_TrendingIffHashtagRaised ==
    /\ trendingRequested => (hashtagAttempted /\ hashtagRaised)
    /\ hashtagRaised => hashtagAttempted
    /\ (hashtagRaised /\ spc # "fallback") => trendingRequested
    /\ (sevent \in {"h_end", "h_break"}) => ~trendingRequested

C9_Witness ==
    /\ spc = "returned"
    /\ hashtagAttempted
    /\ ~hashtagRaised
    /\ hN > 0
    /\ videos = <<>>
    /\ ~trendingRequested

\* C10: a step in which the mapping of one feed item fails appends no
\* record, keeps the records collected, stays in the same tier loop and does
\* not trigger the fallback.
C10_MapFaultSkipsOnlyItem ==
    [][(sevent' \in {"h_map_fault", "t_map_fault"} /\ mapFaults' # mapFaults) =>
          /\ videos' = videos
          /\ spc' = spc
          /\ hashtagRaised' = hashtagRaised
          /\ trendingRequested' = trendingRequested]_vars

====
